---- MODULE Spec2Model ----
(***************************************************************************)
(* The site's build-time logic: the configuration descriptor               *)
(* (gatsby-config, src/unnamed/part_000) and the theme override            *)
(* (src/src/gatsby-plugin-theme-ui/index.js), which is one call            *)
(*     merge({}, baseTheme, { colors: ... })                               *)
(* of lodash.merge.  JavaScript values live on a heap of mutable objects   *)
(* so that aliasing and mutation of the arguments are visible; the merge   *)
(* is translated from lodash's createAssigner / baseMerge / baseMergeDeep  *)
(* / assignMergeValue.                                                     *)
(***************************************************************************)
EXTENDS Integers, Sequences, FiniteSets, TLC

\* Largest number of override records passed after the base record.
MaxOverrides == 2
\* Largest length of an array inside a generated input record.
MaxArrLen == 2

(***************************************************************************)
(* Values as trees (what deep equality compares).  A scalar carries its    *)
(* string; an object or an array carries its own enumerable properties.    *)
(* An array's elements are the properties "0", "1", ... as in JavaScript.  *)
(***************************************************************************)
NoProps == [k \in {} |-> k]

Str(s) == [kind |-> "scalar", val |-> s, props |-> NoProps]

Obj(f) == [kind |-> "object", val |-> "", props |-> f]

NoValue == [kind |-> "undefined", val |-> "", props |-> NoProps]

\* Property names of array elements, in index order.
IndexKeys == <<"0", "1", "2", "3", "4">>

Arr(elems) ==
    [kind |-> "array", val |-> "",
     props |-> [k \in {IndexKeys[i] : i \in 1..Len(elems)} |->
                  elems[CHOOSE i \in 1..Len(elems) : IndexKeys[i] = k]]]

IsContainer(t) == t.kind \in {"object", "array"}

\* The value at path p (a sequence of property names) of tree t.
RECURSIVE At(_, _)
At(t, p) ==
    IF p = <<>> THEN t
    ELSE IF IsContainer(t) /\ Head(p) \in DOMAIN t.props
         THEN At(t.props[Head(p)], Tail(p))
         ELSE NoValue

\* Every path of t that leads to a value, the empty path included.
RECURSIVE PathsOf(_)
PathsOf(t) ==
    {<<>>} \cup
    (IF IsContainer(t)
     THEN UNION {{<<k>> \o q : q \in PathsOf(t.props[k])} : k \in DOMAIN t.props}
     ELSE {})

LeafPaths(t) == {p \in PathsOf(t) : At(t, p).kind = "scalar"}

Has(t, p) == At(t, p).kind # "undefined"

ProperPrefixes(p) == {SubSeq(p, 1, n) : n \in 0..(Len(p) - 1)}

(***************************************************************************)
(* The heap.  A property holds a scalar, or a reference to a heap object.  *)
(***************************************************************************)
SV(s) == [t |-> "scalar", s |-> s, a |-> 0]

RV(a) == [t |-> "ref", s |-> "", a |-> a]

Undefined == [t |-> "undefined", s |-> "", a |-> 0]

\* Enumeration order of an object's keys (integer keys first, as in JS).
KeyOrder ==
    IndexKeys \o
    <<"colors", "initialColorMode", "text", "primary", "secondary",
      "background", "modes", "dark", "light", "fontSizes">>

isObject(v) == v.t = "ref"

isArray(h, v) == v.t = "ref" /\ h.cells[v.a].kind = "array"

isPlainObject(h, v) == v.t = "ref" /\ h.cells[v.a].kind = "object"

\* object[key]
Get(h, obj, key) ==
    IF obj.t = "ref" /\ key \in DOMAIN h.cells[obj.a].props
    THEN h.cells[obj.a].props[key]
    ELSE Undefined

\* key in object
HasKey(h, obj, key) == obj.t = "ref" /\ key \in DOMAIN h.cells[obj.a].props

\* A fresh empty object ({}) or array ([]): the new heap and the reference.
New(h, kind) ==
    [h |-> [h EXCEPT !.cells = Append(@, [kind |-> kind, props |-> NoProps])],
     v |-> RV(Len(h.cells) + 1)]

\* The tree a heap value denotes.
RECURSIVE Deref(_, _)
Deref(cells, v) ==
    IF v.t = "scalar" THEN Str(v.s)
    ELSE IF v.t = "ref"
    THEN [kind |-> cells[v.a].kind, val |-> "",
          props |-> [k \in DOMAIN cells[v.a].props |->
                       Deref(cells, cells[v.a].props[k])]]
    ELSE NoValue

(***************************************************************************)
(* lodash.merge.  h = [cells, threw]: the heap and whether a TypeError     *)
(* was raised.  Inputs are trees without shared or cyclic sub-objects, so  *)
(* baseMergeDeep's stack of already-merged sources never hits.             *)
(***************************************************************************)
RECURSIVE baseMerge(_, _, _)

\* object[key] = value; writing a property of a non-object raises.
baseAssignValue(h, obj, key, value) ==
    IF obj.t # "ref"
    THEN [h EXCEPT !.threw = TRUE]
    ELSE [h EXCEPT !.cells[obj.a].props =
            [k \in (DOMAIN @) \cup {key} |-> IF k = key THEN value ELSE @[k]]]

\* Mutant: assigns only where the destination has no value yet (first wins).
assignMergeValueKeepFirst(h, obj, key, value) ==
    IF ~HasKey(h, obj, key) THEN baseAssignValue(h, obj, key, value) ELSE h

\* Mutant: a scalar of the source does not overwrite an object or array of
\* the destination.
assignMergeValueKeepObject(h, obj, key, value) ==
    IF value.t = "scalar" /\ isObject(Get(h, obj, key)) THEN h
    ELSE IF \/ (value # Undefined /\ Get(h, obj, key) # value)
            \/ (value = Undefined /\ ~HasKey(h, obj, key))
    THEN baseAssignValue(h, obj, key, value)
    ELSE h

assignMergeValue(h, obj, key, value) ==
    IF \/ (value # Undefined /\ Get(h, obj, key) # value)
       \/ (value = Undefined /\ ~HasKey(h, obj, key))
    THEN baseAssignValue(h, obj, key, value)
    ELSE h

\* Mutant: an object or array of the source replaces the destination's
\* value wholesale (a fresh copy of the source's value, nothing kept).
baseMergeDeepReplace(h, obj, src, key) ==
    LET srcValue == Get(h, src, key)
        fresh == New(h, IF isArray(h, srcValue) THEN "array" ELSE "object")
    IN  assignMergeValue(baseMerge(fresh.h, fresh.v, srcValue), obj, key, fresh.v)

\* Mutant: arrays are replaced wholesale, objects are merged.
baseMergeDeepArrayReplace(h, obj, src, key) ==
    LET objValue == Get(h, obj, key)
        srcValue == Get(h, src, key)
        fresh == New(h, IF isArray(h, srcValue) THEN "array" ELSE "object")
        keep == isPlainObject(h, srcValue) /\ isObject(objValue)
        newValue == IF keep THEN objValue ELSE fresh.v
    IN  assignMergeValue(baseMerge(IF keep THEN h ELSE fresh.h, newValue, srcValue),
                         obj, key, newValue)

\* Mutant: where the destination has no object yet, the source's object is
\* assigned by reference instead of being copied.
baseMergeDeepAlias(h, obj, src, key) ==
    LET objValue == Get(h, obj, key)
        srcValue == Get(h, src, key)
    IN  IF isObject(objValue) /\ (isArray(h, srcValue) => isArray(h, objValue))
        THEN assignMergeValue(baseMerge(h, objValue, srcValue), obj, key, objValue)
        ELSE assignMergeValue(h, obj, key, srcValue)

\* Mutant: recurses into the destination's value without creating the
\* missing container first.
baseMergeDeepNoInit(h, obj, src, key) ==
    LET objValue == Get(h, obj, key)
        srcValue == Get(h, src, key)
    IN  assignMergeValue(baseMerge(h, objValue, srcValue), obj, key, objValue)

\* Mutant: an array of the source is appended to the destination's array
\* instead of being merged into it by index.
RECURSIVE appendFrom(_, _, _, _, _)
appendFrom(h, arr, src, i, n) ==
    IF i > Len(IndexKeys) \/ n + i > Len(IndexKeys) THEN h
    ELSE IF ~HasKey(h, src, IndexKeys[i]) THEN appendFrom(h, arr, src, i + 1, n)
    ELSE appendFrom(baseAssignValue(h, arr, IndexKeys[n + i], Get(h, src, IndexKeys[i])),
                    arr, src, i + 1, n)

baseMergeDeepConcat(h, obj, src, key) ==
    LET objValue == Get(h, obj, key)
        srcValue == Get(h, src, key)
        isArr == isArray(h, srcValue)
        reuse == IF isArr THEN isArray(h, objValue) ELSE isObject(objValue)
        fresh == New(h, IF isArr THEN "array" ELSE "object")
        newValue == IF reuse THEN objValue ELSE fresh.v
        h1 == IF reuse THEN h ELSE fresh.h
        len == Cardinality({i \in 1..Len(IndexKeys) : HasKey(h1, newValue, IndexKeys[i])})
    IN  IF isArr
        THEN assignMergeValue(appendFrom(h1, newValue, srcValue, 1, len), obj, key, newValue)
        ELSE assignMergeValue(baseMerge(h1, newValue, srcValue), obj, key, newValue)

baseMergeDeep(h, obj, src, key) ==
    LET objValue == Get(h, obj, key)
        srcValue == Get(h, src, key)
        isArr == isArray(h, srcValue)
        \* isArray(objValue) ? objValue : []    (source is an array)
        \* isObject(objValue) ? objValue : initCloneObject(srcValue)
        reuse == IF isArr THEN isArray(h, objValue) ELSE isObject(objValue)
        fresh == New(h, IF isArr THEN "array" ELSE "object")
        newValue == IF reuse THEN objValue ELSE fresh.v
        h1 == IF reuse THEN h ELSE fresh.h
    IN  assignMergeValue(baseMerge(h1, newValue, srcValue), obj, key, newValue)

\* baseFor(source, ..., keysIn) from the i-th key of the enumeration on.
\* The position in KeyOrder of the first of the keys at or after position i
\* (past the end when there is none).
NextKey(keys, i) ==
    IF \E j \in i..Len(KeyOrder) : KeyOrder[j] \in keys
    THEN CHOOSE j \in i..Len(KeyOrder) :
            /\ KeyOrder[j] \in keys
            /\ \A k \in i..(j - 1) : KeyOrder[k] \notin keys
    ELSE Len(KeyOrder) + 1

RECURSIVE baseMergeFrom(_, _, _, _)
baseMergeFrom(h, obj, src, i) ==
    LET j == NextKey(DOMAIN h.cells[src.a].props, i) IN
    IF j > Len(KeyOrder) THEN h
    ELSE LET key == KeyOrder[j]
             srcValue == Get(h, src, key)
         IN  baseMergeFrom(
                    IF isObject(srcValue)
                    THEN baseMergeDeep(h, obj, src, key)
                    ELSE assignMergeValue(h, obj, key, srcValue),
                    obj, src, j + 1)

baseMerge(h, obj, src) ==
    IF obj = src THEN h ELSE baseMergeFrom(h, obj, src, 1)

(***************************************************************************)
(* Building an input record on the heap from its tree.                     *)
(***************************************************************************)
RECURSIVE Alloc(_, _)
RECURSIVE AllocFrom(_, _, _, _)
AllocFrom(h, ref, t, i) ==
    LET j == NextKey(DOMAIN t.props, i) IN
    IF j > Len(KeyOrder) THEN h
    ELSE LET key == KeyOrder[j]
             child == Alloc(h, t.props[key])
         IN  AllocFrom(baseAssignValue(child.h, ref, key, child.v), ref, t, j + 1)

Alloc(h, t) ==
    IF t.kind = "scalar" THEN [h |-> h, v |-> SV(t.val)]
    ELSE LET fresh == New(h, t.kind)
         IN  [h |-> AllocFrom(fresh.h, fresh.v, t, 1), v |-> fresh.v]

(***************************************************************************)
(* The configuration descriptor: module.exports of gatsby-config.          *)
(***************************************************************************)
\* Mutant: the offline plugin listed before the theme, plus a stray key.
gatsbyConfigReordered ==
    Obj([siteMetadata |-> Obj([siteTitle |-> Str("shkcodes")]),
         plugins |-> Arr(<<Str("gatsby-plugin-offline"),
                           Obj([resolve |-> Str("@lekoarts/gatsby-theme-minimal-blog"),
                                options |-> Obj(NoProps)])>>),
         pathPrefix |-> Str("/")])

gatsbyConfig ==
    Obj([siteMetadata |->
           Obj([siteTitle |-> Str("shkcodes"),
                siteTitleAlt |-> Str("shkcodes"),
                siteHeadline |-> Str("Home of shkcodes"),
                siteUrl |-> Str("https://minimal-blog.lekoarts.de"),
                siteDescription |-> Str("home of shkcodes"),
                siteLanguage |-> Str("en"),
                siteImage |-> Str("/bg1.jpg"),
                author |-> Str("@shkcodes")]),
         plugins |->
           Arr(<<Obj([resolve |-> Str("@lekoarts/gatsby-theme-minimal-blog"),
                      options |->
                        Obj([formatString |-> Str("DD-MM-YYYY"),
                             navigation |->
                               Arr(<<Obj([title |-> Str("Blog"), slug |-> Str("/blog")]),
                                     Obj([title |-> Str("About"), slug |-> Str("/about")])>>),
                             externalLinks |->
                               Arr(<<Obj([name |-> Str("Twitter"),
                                          url |-> Str("https://twitter.com/SHKM9")]),
                                     Obj([name |-> Str("Github"),
                                          url |-> Str("https://github.com/shkcodes")])>>)])]),
                 Str("gatsby-plugin-offline")>>)])

(***************************************************************************)
(* The theme override: the third argument of the merge call.               *)
(***************************************************************************)
\* Mutant: the dark mode's tokens given at colors.dark instead of
\* colors.modes.dark, and the secondary colour left out.
siteOverrideMisplaced ==
    Obj([colors |->
           Obj([initialColorMode |-> Str("light"),
                primary |-> Str("#FF5370"),
                dark |-> Obj([primary |-> Str("#FF5370"),
                              secondary |-> Str("#40F4AD"),
                              background |-> Str("#191919")])])])

siteOverride ==
    Obj([colors |->
           Obj([initialColorMode |-> Str("light"),
                primary |-> Str("#FF5370"),
                secondary |-> Str("#FF5370"),
                modes |->
                  Obj([dark |->
                         Obj([primary |-> Str("#FF5370"),
                              secondary |-> Str("#40F4AD"),
                              background |-> Str("#191919")])])])])

(***************************************************************************)
(* Input records.  baseTheme comes from the theme package and the merge    *)
(* takes any records, so the inputs are drawn from bounded sets of nested  *)
(* records: keys present or absent, scalars, arrays and objects at the     *)
(* same key.  Each argument's leaves carry that argument's own colour.     *)
(***************************************************************************)
PartialFns(keys, vals) == UNION {[S -> vals] : S \in SUBSET keys}

\* Leaf values of the base record, the first override, the second, ...
Colours == <<"blue", "red", "green", "black", "white">>

Arrays(c) == {Arr([i \in 1..n |-> Str(c)]) : n \in 0..MaxArrLen}

\* Values one level deep: a scalar, an array, an object of scalars.
Shallow(c) ==
    {Str(c)} \cup Arrays(c)
    \cup {Obj(f) : f \in PartialFns({"primary", "secondary"}, {Str(c)})}

\* Values two levels deep: the objects hold scalars or objects of scalars.
Deep(c) ==
    LET inner == {Str(c)} \cup {Obj(f) : f \in PartialFns({"dark", "light"}, {Str(c)})}
    IN  {Str(c)} \cup Arrays(c)
        \cup {Obj(f) : f \in PartialFns({"primary", "modes"}, inner)}

\* Tree t with every leaf given the value c.
RECURSIVE Recolour(_, _)
Recolour(t, c) ==
    IF t.kind = "scalar" THEN Str(c)
    ELSE [t EXCEPT !.props = [k \in DOMAIN @ |-> Recolour(@[k], c)]]

ShallowRecords(c) == {Obj(f) : f \in PartialFns({"colors"}, Shallow(c))}

DeepRecords(c) == {Obj(f) : f \in PartialFns({"colors"}, Deep(c))}

\* A base record with at most one override (deep records), or with two and
\* more overrides (shallow records).
GenericInputs ==
    {[base |-> b, overrides |-> <<>>] : b \in DeepRecords(Colours[1])}
    \cup {[base |-> b, overrides |-> <<o>>] :
            b \in DeepRecords(Colours[1]), o \in DeepRecords(Colours[2])}
    \cup UNION {{[base |-> b,
                  overrides |-> [i \in 1..n |-> Recolour(os[i], Colours[i + 1])]] :
                   b \in ShallowRecords(Colours[1]),
                   os \in [1..n -> ShallowRecords(Colours[1])]}
                : n \in 2..MaxOverrides}

\* The scenario of section 8 of the specification.
ScenarioBase ==
    Obj([colors |->
           Obj([primary |-> Str("blue"),
                modes |-> Obj([dark |-> Obj([primary |-> Str("blue"),
                                             background |-> Str("black")])])])])

ScenarioOverride ==
    Obj([colors |->
           Obj([primary |-> Str("red"),
                modes |-> Obj([dark |-> Obj([secondary |-> Str("green")])])])])

ScenarioInputs == {[base |-> ScenarioBase, overrides |-> <<ScenarioOverride>>]}

\* Base themes: a colors object with any of the tokens, with or without a
\* dark mode, and an array-valued scale; one of them repeats a value of the
\* override.
BaseThemes ==
    LET dark == {Obj(f) : f \in PartialFns({"text", "primary", "secondary", "background"},
                                           {Str("#1A202C")})}
        modes == {Obj([dark |-> d]) : d \in dark}
                     \cup {Obj([dark |-> d, light |-> Obj([text |-> Str("#000")])]) : d \in dark}
        tokens == PartialFns({"text", "primary", "secondary"}, {Str("#6B46C1")})
        scale == Arr(<<Str("12px"), Str("14px")>>)
    IN  {Obj([colors |-> Obj(f), fontSizes |-> scale]) : f \in tokens}
        \cup {Obj([colors |-> Obj([k \in DOMAIN f \cup {"modes"} |->
                                     IF k = "modes" THEN m ELSE f[k]]),
                   fontSizes |-> scale]) : f \in tokens, m \in modes}
        \cup {Obj([fontSizes |-> scale]),
              Obj([colors |-> Obj([initialColorMode |-> Str("light"),
                                   primary |-> Str("#FF5370"),
                                   text |-> Str("#2D3748")])])}

ThemeInputs == {[base |-> b, overrides |-> <<siteOverride>>] : b \in BaseThemes}

\* A base record with the same override passed twice.
RepeatedInputs ==
    {[base |-> b, overrides |-> <<o, o>>] :
        b \in DeepRecords(Colours[1]), o \in DeepRecords(Colours[2])}

Inputs == GenericInputs \cup ScenarioInputs \cup ThemeInputs \cup RepeatedInputs

(***************************************************************************)
(* State.                                                                  *)
(***************************************************************************)
VARIABLES
    pc,         \* "config", "theme", "merge", "done" or "failed"
    config,     \* the configuration descriptor the framework has loaded
    given,      \* the argument records as they were passed (trees)
    heap,       \* the heap's objects
    threw,      \* a TypeError was raised
    baseTheme,  \* reference to the imported base theme
    overrides,  \* references to the override records, in order
    target,     \* reference to the merge's first argument, {}
    index,      \* number of sources createAssigner has merged
    exported    \* the module's default export

vars == <<pc, config, given, heap, threw, baseTheme, overrides, target, index, exported>>

\* The records on the heap, one after the other: the heap and the references.
RECURSIVE AllocAll(_, _)
AllocAll(h, trees) ==
    IF trees = <<>> THEN [h |-> h, vs |-> <<>>]
    ELSE LET first == Alloc(h, Head(trees))
             rest == AllocAll(first.h, Tail(trees))
         IN  [h |-> rest.h, vs |-> <<first.v>> \o rest.vs]

Init ==
    \E inp \in Inputs :
        LET all == AllocAll([cells |-> <<>>, threw |-> FALSE],
                            <<inp.base>> \o inp.overrides)
        IN  /\ pc = "config"
            /\ config = NoValue
            /\ given = inp
            /\ heap = all.h.cells
            /\ threw = FALSE
            /\ baseTheme = Head(all.vs)
            /\ overrides = Tail(all.vs)
            /\ target = Undefined
            /\ index = 0
            /\ exported = Undefined

\* The framework reads gatsby-config at build start.
LoadConfig ==
    /\ pc = "config"
    /\ config' = gatsbyConfig
    /\ pc' = "theme"
    /\ UNCHANGED <<given, heap, threw, baseTheme, overrides, target, index, exported>>

\* The call's first argument, {}, is created.
Start ==
    /\ pc = "theme"
    /\ LET fresh == New([cells |-> heap, threw |-> threw], "object")
       IN  /\ heap' = fresh.h.cells
           /\ target' = fresh.v
    /\ index' = 0
    /\ pc' = "merge"
    /\ UNCHANGED <<config, given, threw, baseTheme, overrides, exported>>

sources == <<baseTheme>> \o overrides

\* Mutant: the assigner's loop starts at the second source.
MergeNextSkipFirst ==
    /\ pc = "merge"
    /\ index < Len(sources)
    /\ LET h == IF index = 0 THEN [cells |-> heap, threw |-> threw]
                ELSE baseMerge([cells |-> heap, threw |-> threw], target, sources[index + 1])
       IN  /\ heap' = h.cells
           /\ threw' = h.threw
           /\ pc' = IF h.threw THEN "failed" ELSE "merge"
    /\ index' = index + 1
    /\ UNCHANGED <<config, given, baseTheme, overrides, target, exported>>

\* One round of createAssigner's loop: the next source is merged into the target.
MergeNext ==
    /\ pc = "merge"
    /\ index < Len(sources)
    /\ LET h == baseMerge([cells |-> heap, threw |-> threw], target, sources[index + 1])
       IN  /\ heap' = h.cells
           /\ threw' = h.threw
           /\ pc' = IF h.threw THEN "failed" ELSE "merge"
    /\ index' = index + 1
    /\ UNCHANGED <<config, given, baseTheme, overrides, target, exported>>

\* merge returns its first argument, which the module exports.
Export ==
    /\ pc = "merge"
    /\ index = Len(sources)
    /\ exported' = target
    /\ pc' = "done"
    /\ UNCHANGED <<config, given, heap, threw, baseTheme, overrides, target, index>>

\* merge({}, trees[1], ..., trees[n]) as a function of its arguments: the
\* records are built on a fresh heap, createAssigner merges them in order
\* into a fresh {}, and the tree of the returned target is the value.
RECURSIVE mergeRounds(_, _, _)
mergeRounds(h, tgt, srcs) ==
    IF srcs = <<>> THEN h
    ELSE mergeRounds(baseMerge(h, tgt, Head(srcs)), tgt, Tail(srcs))

merge(trees) ==
    LET all == AllocAll([cells |-> <<>>, threw |-> FALSE], trees)
        fresh == New(all.h, "object")
    IN  Deref(mergeRounds(fresh.h, fresh.v, all.vs).cells, fresh.v)

Next == LoadConfig \/ Start \/ MergeNext \/ Export

Spec == Init /\ [][Next]_vars

\* The records the claims speak of, as trees.
B == given.base

O(i) == given.overrides[i]

N == Len(given.overrides)

R == Deref(heap, exported)

Done == pc = "done"

TypeOK ==
    /\ pc \in {"config", "theme", "merge", "done", "failed"}
    /\ index \in 0..(MaxOverrides + 1)
    /\ threw \in BOOLEAN
    /\ \A a \in 1..Len(heap) : DOMAIN heap[a].props \subseteq {KeyOrder[i] : i \in 1..Len(KeyOrder)}

(***************************************************************************)
(* Vocabulary of the claims.                                               *)
(***************************************************************************)
Prefixes(p) == ProperPrefixes(p) \cup {p}

\* Wherever y holds a value on the way to p (p excluded), it is of the kind
\* x holds there.
SameKindsAbove(x, y, p) ==
    \A q \in ProperPrefixes(p) : Has(y, q) => At(y, q).kind = At(x, q).kind

\* x and y both hold an object at p and at every prefix of p.
ObjectsDownTo(x, y, p) ==
    \A q \in Prefixes(p) : At(x, q).kind = "object" /\ At(y, q).kind = "object"

\* The overrides that hold a leaf at p.
Holders(p) == {i \in 1..N : At(O(i), p).kind = "scalar"}

Last(S) == CHOOSE i \in S : \A j \in S : j <= i

\* During one round of the assigner's loop: the target before and after,
\* and the source being merged.
T == Deref(heap, target)

S == Deref(heap, sources[index + 1])

Round == pc = "merge" /\ index < Len(sources) /\ index' = index + 1

(***************************************************************************)
(* C1                                                                      *)
(***************************************************************************)
\* C1 as stated: every leaf path of B that is a leaf path of no override has
\* B's value in the result.
C1_LeafOnlyInBaseKept ==
    Done => \A p \in LeafPaths(B) :
                (\A i \in 1..N : p \notin LeafPaths(O(i))) => At(R, p) = At(B, p)

\* C1, amended: every leaf path p of B has B's value in the result, provided
\* no override holds any value at p and no override holds, at a prefix of p,
\* a value of another kind than B's.
C1_LeafOnlyInBaseKeptSameKinds ==
    Done => \A p \in LeafPaths(B) :
                (\A i \in 1..N : ~Has(O(i), p) /\ SameKindsAbove(B, O(i), p))
                    => At(R, p) = At(B, p)

\* A leaf of B two levels down survives although an override writes into
\* the object that holds it.
C1_Witness ==
    /\ Done
    /\ \E p \in LeafPaths(B) :
          /\ Len(p) >= 2
          /\ \A i \in 1..N : ~Has(O(i), p) /\ SameKindsAbove(B, O(i), p)
          /\ \E i \in 1..N : At(O(i), SubSeq(p, 1, Len(p) - 1)).props # NoProps
          /\ At(R, p) = At(B, p)

(***************************************************************************)
(* C2                                                                      *)
(***************************************************************************)
\* C2 as stated: every leaf path of an override has, in the result, the
\* value of the last override that holds a leaf there.
C2_LastOverrideWins ==
    Done => \A i \in 1..N : \A p \in LeafPaths(O(i)) :
                At(R, p) = At(O(Last(Holders(p))), p)

\* C2, amended: every leaf path p of an override has, in the result, the
\* value of the last override that holds a leaf there, provided no later
\* override holds, at p or at a prefix of p, a value of another kind.
C2_LastOverrideWinsSameKinds ==
    Done => \A i \in 1..N : \A p \in LeafPaths(O(i)) :
                LET last == Last(Holders(p)) IN
                (\A j \in (last + 1)..N : \A q \in Prefixes(p) :
                     Has(O(j), q) => At(O(j), q).kind = At(O(last), q).kind)
                    => At(R, p) = At(O(last), p)

\* Base and two overrides hold a leaf at the same path; the second wins.
C2_Witness ==
    /\ Done
    /\ N >= 2
    /\ \E p \in LeafPaths(B) :
          /\ Holders(p) = {1, 2}
          /\ At(R, p) = At(O(2), p)
          /\ At(R, p) # At(O(1), p)
          /\ At(R, p) # At(B, p)

(***************************************************************************)
(* C3                                                                      *)
(***************************************************************************)
\* The sub-keys of x's object at p that y's object at p does not specify.
Unspecified(x, y, p) == DOMAIN At(x, p).props \ DOMAIN At(y, p).props

\* C3: an object-valued key is never replaced wholesale.  With one
\* override: wherever B and the override both hold an object (at every
\* nesting depth), the result keeps every sub-key of B the override does not
\* specify, with B's value.  In every round of a merge of any length the
\* same holds of the target and the source merged into it.
C3_ObjectsMergedKeyByKey ==
    /\ [](Done /\ N = 1 =>
            \A p \in PathsOf(B) :
                ObjectsDownTo(B, O(1), p) =>
                    \A k \in Unspecified(B, O(1), p) :
                        At(R, p \o <<k>>) = At(B, p \o <<k>>))
    /\ [][Round =>
            \A p \in PathsOf(T) :
                ObjectsDownTo(T, S, p) =>
                    \A k \in Unspecified(T, S, p) :
                        At(T', p \o <<k>>) = At(T, p \o <<k>>)]_vars

\* Base and override both hold an object two levels down; the override
\* specifies one sub-key there and the base's other sub-key is kept.
C3_Witness ==
    /\ Done
    /\ N = 1
    /\ \E p \in PathsOf(B) :
          /\ Len(p) = 2
          /\ ObjectsDownTo(B, O(1), p)
          /\ DOMAIN At(O(1), p).props # {}
          /\ \E k \in Unspecified(B, O(1), p) :
                At(R, p \o <<k>>) = At(B, p \o <<k>>)

(***************************************************************************)
(* C4                                                                      *)
(***************************************************************************)
\* x and y hold containers of the same kind at every proper prefix of p.
SameContainersAbove(x, y, p) ==
    \A q \in ProperPrefixes(p) : At(x, q).kind = At(y, q).kind

\* z's array at p is x's array at p overlaid, index by index, with y's
\* array of scalars at p.
MergedByIndex(z, x, y, p) ==
    /\ At(z, p).kind = "array"
    /\ DOMAIN At(z, p).props = DOMAIN At(x, p).props \cup DOMAIN At(y, p).props
    /\ \A k \in DOMAIN At(z, p).props :
          At(z, p \o <<k>>) = IF k \in DOMAIN At(y, p).props
                              THEN At(y, p \o <<k>>)
                              ELSE At(x, p \o <<k>>)

ArrayOfScalars(x, p) ==
    /\ At(x, p).kind = "array"
    /\ \A k \in DOMAIN At(x, p).props : At(x, p \o <<k>>).kind = "scalar"

RECURSIVE Reach(_, _)
Reach(cells, v) ==
    IF v.t # "ref" THEN {}
    ELSE {v.a} \cup UNION {Reach(cells, cells[v.a].props[k]) : k \in DOMAIN cells[v.a].props}

InputObjects == UNION {Reach(heap, sources[i]) : i \in 1..Len(sources)}

\* C5: the merge is pure.  In every state the base theme and every override
\* are structurally equal to what was passed, and the returned record shares
\* no object with them: only the fresh target and its copies are written.
C5_ArgumentsUnchanged ==
    /\ Deref(heap, baseTheme) = B
    /\ \A i \in 1..N : Deref(heap, overrides[i]) = O(i)
    /\ Done => Reach(heap, exported) \cap InputObjects = {}

\* Two overrides wrote into an object the target took from the base, and
\* the base and the overrides are as they were.
C5_Witness ==
    /\ Done
    /\ N = 2
    /\ ObjectsDownTo(B, O(1), <<"colors">>)
    /\ ObjectsDownTo(B, O(2), <<"colors">>)
    /\ At(R, <<"colors">>) # At(B, <<"colors">>)
    /\ Deref(heap, baseTheme) = B
    /\ Deref(heap, overrides[1]) = O(1)

(***************************************************************************)
(* C6                                                                      *)
(***************************************************************************)
ScenarioExpected ==
    Obj([colors |->
           Obj([primary |-> Str("red"),
                modes |-> Obj([dark |-> Obj([primary |-> Str("blue"),
                                             secondary |-> Str("green"),
                                             background |-> Str("black")])])])])

\* C6: the scenario's base merged with the scenario's override is exactly
\* the expected record.
C6_Scenario ==
    (Done /\ B = ScenarioBase /\ given.overrides = <<ScenarioOverride>>)
        => R = ScenarioExpected

C6_Witness ==
    /\ Done
    /\ B = ScenarioBase
    /\ given.overrides = <<ScenarioOverride>>
    /\ LeafPaths(R) = LeafPaths(ScenarioExpected)
    /\ At(R, <<"colors", "modes", "dark", "secondary">>) = Str("green")

(***************************************************************************)
(* C7                                                                      *)
(***************************************************************************)
\* C7: with no override, or with empty overrides only, the result is
\* deep-equal to the base record.
C7_EmptyOverrideIdentity ==
    (Done /\ \A i \in 1..N : O(i) = Obj(NoProps)) => R = B

\* A base record with an array or with nested objects, merged with one
\* empty override.
C7_Witness ==
    /\ Done
    /\ N = 1
    /\ O(1) = Obj(NoProps)
    /\ \E p \in LeafPaths(B) : Len(p) >= 2
    /\ R = B

(***************************************************************************)
(* C8                                                                      *)
(***************************************************************************)
Args == <<B>> \o given.overrides

\* The arguments that hold a value at p.
Having(p) == {i \in 1..Len(Args) : Has(Args[i], p)}

SitePaths ==
    {<<<<"colors", "initialColorMode">>, "light">>,
     <<<<"colors", "primary">>, "#FF5370">>,
     <<<<"colors", "secondary">>, "#FF5370">>,
     <<<<"colors", "modes", "dark", "primary">>, "#FF5370">>,
     <<<<"colors", "modes", "dark", "secondary">>, "#40F4AD">>,
     <<<<"colors", "modes", "dark", "background">>, "#191919">>}

ThemeRun == \E b \in BaseThemes : given = [base |-> b, overrides |-> <<siteOverride>>]

\* C9: the exported theme has the six site values at the six paths and, at
\* every other leaf path, exactly the base theme's leaves.
C9_ExportedTheme ==
    (Done /\ ThemeRun) =>
        /\ \A sp \in SitePaths : At(R, sp[1]) = Str(sp[2])
        /\ LeafPaths(R) = LeafPaths(B) \cup {sp[1] : sp \in SitePaths}
        /\ \A p \in LeafPaths(B) \ {sp[1] : sp \in SitePaths} : At(R, p) = At(B, p)

\* A base theme with its own dark-mode text colour and its own primary.
C9_Witness ==
    /\ Done
    /\ ThemeRun
    /\ Has(B, <<"colors", "modes", "dark", "text">>)
    /\ Has(B, <<"colors", "modes", "dark", "primary">>)
    /\ Has(B, <<"colors", "text">>)
    /\ At(R, <<"colors", "modes", "dark", "text">>) = Str("#1A202C")
    /\ At(R, <<"colors", "modes", "dark", "primary">>) = Str("#FF5370")
    /\ At(R, <<"fontSizes", "1">>) = Str("14px")

(***************************************************************************)
(* C10                                                                     *)
(***************************************************************************)
\* The indexes of the array at path p of the loaded configuration.
Indexes(p) == {i \in 1..Len(IndexKeys) : IndexKeys[i] \in DOMAIN At(config, p).props}

Plugin(i) == At(config, <<"plugins", IndexKeys[i]>>)

\* C10: once loaded, the configuration is a record with the keys
\* siteMetadata and plugins only; siteMetadata holds strings only; plugins
\* is a list of plugin names and {resolve, options} records, the theme
\* plugin before gatsby-plugin-offline.
C10_ConfigShape ==
    pc # "config" =>
        /\ config.kind = "object"
        /\ DOMAIN config.props = {"siteMetadata", "plugins"}
        /\ At(config, <<"siteMetadata">>).kind = "object"
        /\ \A k \in DOMAIN At(config, <<"siteMetadata">>).props :
              At(config, <<"siteMetadata", k>>).kind = "scalar"
        /\ At(config, <<"plugins">>).kind = "array"
        /\ DOMAIN At(config, <<"plugins">>).props
              = {IndexKeys[i] : i \in Indexes(<<"plugins">>)}
        /\ \A i \in Indexes(<<"plugins">>) :
              \/ Plugin(i).kind = "scalar"
              \/ /\ Plugin(i).kind = "object"
                 /\ DOMAIN Plugin(i).props = {"resolve", "options"}
        /\ \E i, j \in Indexes(<<"plugins">>) :
              /\ i < j
              /\ At(Plugin(i), <<"resolve">>) = Str("@lekoarts/gatsby-theme-minimal-blog")
              /\ Plugin(j) = Str("gatsby-plugin-offline")

\* The loaded configuration: eight metadata strings and two plugins.
C10_Witness ==
    /\ pc = "theme"
    /\ Cardinality(DOMAIN At(config, <<"siteMetadata">>).props) = 8
    /\ Indexes(<<"plugins">>) = {1, 2}
    /\ Plugin(1).kind = "object"
    /\ Plugin(2).kind = "scalar"

(***************************************************************************)
(* C11                                                                     *)
(***************************************************************************)
\* At p one of x, y holds an object and the other a scalar.
KindClash(x, y, p) ==
    \/ At(x, p).kind = "object" /\ At(y, p).kind = "scalar"
    \/ At(x, p).kind = "scalar" /\ At(y, p).kind = "object"

\* C11: where the base holds an object and the override a scalar, or the
\* base a scalar and the override an object, the result holds the
\* override's value, whole: the scalar with none of the base's sub-keys, or
\* the override's object in place of the base's scalar.  With one override
\* this is said of the result; in every round of a merge of any length it
\* holds of the target and the source merged into it.
C11_KindClashOverrideWins ==
    /\ [](Done /\ N = 1 =>
            \A p \in PathsOf(B) :
                KindClash(B, O(1), p) => At(R, p) = At(O(1), p))
    /\ [][Round =>
            \A p \in PathsOf(T) :
                KindClash(T, S, p) => At(T', p) = At(S, p)]_vars

\* In one run the override puts a scalar over an object of the base that
\* has sub-keys, and an object with sub-keys over a scalar of the base.
C11_Witness ==
    /\ Done
    /\ N = 1
    /\ \E p, q \in PathsOf(B) :
          /\ At(B, p).kind = "object" /\ At(B, p).props # NoProps
          /\ At(O(1), p).kind = "scalar"
          /\ At(R, p) = At(O(1), p)
          /\ At(B, q).kind = "scalar"
          /\ At(O(1), q).kind = "object" /\ At(O(1), q).props # NoProps
          /\ At(R, q) = At(O(1), q)

(***************************************************************************)
(* C12                                                                     *)
(***************************************************************************)
\* C12: applying overrides is a left fold and is idempotent.  The exported
\* record is merge of its arguments; it is deep-equal to the merge of
\* (the merge of the base with all overrides but the last) with the last
\* override; and when the same override is passed twice it is deep-equal to
\* the merge of the base with that override passed once.
C12_LeftFoldIdempotent ==
    Done =>
        /\ R = merge(Args)
        /\ N >= 1 =>
              R = merge(<<merge(<<B>> \o SubSeq(given.overrides, 1, N - 1)), O(N)>>)
        /\ (N = 2 /\ O(1) = O(2)) => R = merge(<<B, O(1)>>)

\* An override passed twice whose array is shorter than the base's: the
\* result is not the base, it is the fold of the two rounds, and it is the
\* result of passing the override once.
C12_Witness ==
    /\ Done
    /\ N = 2
    /\ O(1) = O(2)
    /\ At(B, <<"colors">>).kind = "array"
    /\ At(O(1), <<"colors">>).kind = "array"
    /\ Cardinality(DOMAIN At(B, <<"colors">>).props) = 2
    /\ Cardinality(DOMAIN At(O(1), <<"colors">>).props) = 1
    /\ R # B
    /\ R = merge(<<merge(<<B, O(1)>>), O(2)>>)
    /\ R = merge(<<B, O(1)>>)

\* Two different overrides that both write under colors: each round changes
\* the record, and the result is the fold.
C12_WitnessFold ==
    /\ Done
    /\ N = 2
    /\ O(1) # O(2)
    /\ At(O(1), <<"colors">>).props # NoProps
    /\ At(O(2), <<"colors">>).props # NoProps
    /\ At(B, <<"colors">>).props # NoProps
    /\ merge(<<B, O(1)>>) # B
    /\ R # merge(<<B, O(1)>>)
    /\ R = merge(<<merge(<<B, O(1)>>), O(2)>>)
====
